---- MODULE Spec2Model ----
(***************************************************************************)
(* whoyougonnacall: the startup and the alert dispatch pipeline.           *)
(*                                                                         *)
(*   src/src/util.rs      send_json_request, error_for_status              *)
(*   src/src/opsgenie.rs  get_oncall_number, get_phone_number,             *)
(*                        format_phone_number                              *)
(*   src/src/twilio.rs    alert, AlertResult::update_overall_result        *)
(*   src/src/main.rs      run, get_person_on_call, alert_on_call           *)
(*   src/src/config.rs    Config::new and the provider configurations      *)
(*                                                                         *)
(* The startup is run from the environment to the server or to its error.  *)
(* One request is followed from the entry of its handler to its reply.     *)
(* A step of the model is the code a handler runs between two awaits on    *)
(* the network: the providers' answers are the inputs of the steps.        *)
(*                                                                         *)
(* Strings that the code only copies and compares for equality are TLA+    *)
(* strings.  Phone numbers are sorted and rewritten character by           *)
(* character, so they are sequences of byte values ("+" is 43, "-" is 45,  *)
(* "1" is 49, "2" is 50).                                                  *)
(***************************************************************************)
EXTENDS Integers, Sequences, FiniteSets, TLC

VARIABLES
    pc,               \* where the program is.  Startup: "main", "serving",
                      \* "exit_failure".  A handler: "request", "oncall_wait",
                      \* "contact_wait", "alert", "dial_wait", "done", "panicked".
                      \* A function called on its own: "call", "returned"
    env,              \* the environment variables of the process (read-only)
    config,           \* the Config shared by the handlers (<<>> before
                      \* Config::new has returned it, read-only afterwards)
    request,          \* the inbound request: the handler and its query
    persons_on_call,  \* get_oncall_number: the answer to the on-call request
                      \* (<<>> until it has arrived, then <<Result>>)
    contact_log,      \* get_oncall_number: the position of the for loop, as the
                      \* list of (user, return of get_phone_number) so far
    result_list,      \* get_oncall_number: result_list
    lookup,           \* the return of get_oncall_number (<<>>, then <<Result>>)
    numbers,          \* twilio::alert: numbers
    url,              \* twilio::alert: url_builder after the join (<<>> before it)
    slots,            \* join_all: one slot per future, pending or done(output)
    order,            \* history: the indices of the dial requests, as they completed
    http_log,         \* history: the outbound requests issued, in order
    log,              \* history: the log lines and span fields that render a
                      \* Config or the headers of an outbound request
    reply             \* the return value of the handler, of run or of the
                      \* function called (<<>>, then <<Result>>)

vars == <<pc, env, config, request, persons_on_call, contact_log, result_list, lookup,
          numbers, url, slots, order, http_log, log, reply>>

(***************************************************************************)
(* Result<T, E>                                                            *)
(***************************************************************************)
Ok(v) == [ok |-> TRUE, value |-> v]
Err(e) == [ok |-> FALSE, error |-> e]

Range(s) == {s[i] : i \in 1..Len(s)}

SeqsUpTo(S, n) == UNION {[1..k -> S] : k \in 0..n}

(***************************************************************************)
(* url::Url, as far as the code uses it: whether the URL can be a base     *)
(* (has a hierarchical path), its host and its path segments.  A trailing  *)
(* slash is a last segment that is empty.                                  *)
(***************************************************************************)
Url(host, path) == [cannot_be_a_base |-> FALSE, host |-> host, path |-> path]

\* A URL such as "mailto:ops": Url::parse accepts it, and it has no path to
\* resolve a reference against.
OpaqueUrl(rest) == [cannot_be_a_base |-> TRUE, host |-> rest, path |-> <<>>]

Front(s) == IF s = <<>> THEN <<>> ELSE SubSeq(s, 1, Len(s) - 1)

\* Url::join with a relative path reference (the segments of "a/b/"): the
\* last segment of the base's path is dropped and the reference's segments
\* are appended.  A base that cannot be a base is an error.
Join(base, segments) ==
    IF base.cannot_be_a_base
    THEN Err("RelativeUrlWithCannotBeABaseBase")
    ELSE Ok([base EXCEPT !.path = Front(base.path) \o segments])

(***************************************************************************)
(* What a provider can answer to one request: the request fails on the     *)
(* network, or a response arrives with a status, a body that can or        *)
(* cannot be read as text, and (when read as JSON) a value of some type.   *)
(***************************************************************************)
NetworkError == [net |-> FALSE]

HttpResponse(status, readable, text, json) ==
    [net |-> TRUE, status |-> status, readable |-> readable, text |-> text,
     json |-> json]

\* A JSON body: the type it deserializes as, and the value.
Json(type, value) == [type |-> type, value |-> value]
NotJson == [type |-> "none", value |-> <<>>]

Space == 32

\* str::trim, on a sequence of byte values.
RECURSIVE TrimStart(_)
TrimStart(t) ==
    IF t # <<>> /\ Head(t) = Space THEN TrimStart(Tail(t)) ELSE t

RECURSIVE TrimEnd(_)
TrimEnd(t) ==
    IF t # <<>> /\ t[Len(t)] = Space THEN TrimEnd(Front(t)) ELSE t

Trim(t) == TrimEnd(TrimStart(t))

is_client_error(status) == status >= 400 /\ status < 500
is_server_error(status) == status >= 500 /\ status < 600

\* A plausible slip: only a 5xx response is an error.
error_for_status_server_only(response, req_url) ==
    IF is_server_error(response.status)
    THEN IF response.readable
         THEN Err([kind |-> "HttpErrorResponse", status |-> response.status,
                   url |-> req_url, text |-> Trim(response.text)])
         ELSE Err([kind |-> "HttpErrorResponseUndecodableText",
                   status |-> response.status, url |-> req_url])
    ELSE Ok(response)

\* util::error_for_status: Err for a 4xx/5xx response, with the body text
\* when it can be read; Ok(response) otherwise.
error_for_status(response, req_url) ==
    IF is_client_error(response.status) \/ is_server_error(response.status)
    THEN IF response.readable
         THEN Err([kind |-> "HttpErrorResponse", status |-> response.status,
                   url |-> req_url, text |-> Trim(response.text)])
         ELSE Err([kind |-> "HttpErrorResponseUndecodableText",
                   status |-> response.status, url |-> req_url])
    ELSE Ok(response)

\* util::send_json_request::<T>: the answer `raw` to a request sent to
\* req_url, as a Result<T, util::Error>.
send_json_request(raw, req_url, T) ==
    IF ~raw.net
    THEN Err([kind |-> "HttpRequest"])
    ELSE LET non_error_response == error_for_status(raw, req_url)
         IN  IF ~non_error_response.ok
             THEN non_error_response
             ELSE IF raw.readable /\ raw.json.type = T
                  THEN Ok(raw.json.value)
                  ELSE Err([kind |-> "ParseJson"])

(***************************************************************************)
(* util::Error as Display renders it (e.to_string()): the message of the   *)
(* variant and the fields its format string names.                         *)
(***************************************************************************)
to_string(e) ==
    CASE e.kind = "HttpRequest" ->
            [message |-> "failed to execute request"]
      [] e.kind = "ParseJson" ->
            [message |-> "failed to parse json response"]
      [] e.kind = "HttpErrorResponse" ->
            [message |-> "http response {status} for {url} with response body {text}",
             status |-> e.status, url |-> e.url, text |-> e.text]
      [] e.kind = "HttpErrorResponseUndecodableText" ->
            [message |-> "http response {status} for {url} with an undecodable response body",
             status |-> e.status, url |-> e.url]

(***************************************************************************)
(* opsgenie.rs: phone numbers                                              *)
(***************************************************************************)
Plus == 43
Dash == 45

\* A plausible slip: a number that has its "+" is not given another.
format_phone_number_once(number) ==
    LET digits == SelectSeq(number, LAMBDA c : c # Dash)
    IN  IF digits # <<>> /\ Head(digits) = Plus THEN digits ELSE <<Plus>> \o digits

\* format_phone_number: number.replace("-", "") and a "+" in front.
format_phone_number(number) ==
    <<Plus>> \o SelectSeq(number, LAMBDA c : c # Dash)

\* Ord for String: byte-wise lexicographic, a proper prefix first.
RECURSIVE StrLess(_, _)
StrLess(a, b) ==
    IF b = <<>> THEN FALSE
    ELSE IF a = <<>> THEN TRUE
    ELSE IF Head(a) # Head(b) THEN Head(a) < Head(b)
    ELSE StrLess(Tail(a), Tail(b))

\* Vec::sort, as an insertion sort (stable, like the library's).
RECURSIVE Insert(_, _)
Insert(x, s) ==
    IF s = <<>> THEN <<x>>
    ELSE IF StrLess(x, Head(s)) THEN <<x>> \o s
    ELSE <<Head(s)>> \o Insert(x, Tail(s))

RECURSIVE Sort(_)
Sort(s) == IF s = <<>> THEN <<>> ELSE Insert(s[Len(s)], Sort(Front(s)))

\* Vec::dedup: of each run of consecutive equal elements the first is kept.
RECURSIVE Dedup(_)
Dedup(s) ==
    IF Len(s) <= 1 THEN s
    ELSE IF s[1] = s[2] THEN Dedup(Tail(s))
    ELSE <<s[1]>> \o Dedup(Tail(s))

\* The filter of get_phone_number: the contact methods that carry a number.
\* A plausible slip: the contact method is not looked at.
IsPhoneContactAnyMethod(user_contact) ==
    user_contact.contactMethod \in {"voice", "sms", "email"}

IsPhoneContact(user_contact) ==
    user_contact.contactMethod = "voice" \/ user_contact.contactMethod = "sms"

FormattedNumbers(userContacts) ==
    LET qualifying == SelectSeq(userContacts, IsPhoneContact)
    IN  [i \in 1..Len(qualifying) |-> format_phone_number(qualifying[i].to)]

\* A plausible slip: dedup without the sort before it.
NumbersOfUnsorted(userContacts) == Dedup(FormattedNumbers(userContacts))

\* get_phone_number, from the contacts of the response to its return value.
NumbersOf(userContacts) == Dedup(Sort(FormattedNumbers(userContacts)))

(***************************************************************************)
(* twilio.rs: the outcome of one number and of the batch                   *)
(***************************************************************************)
Success(number) == [type |-> "Success", number |-> number]
Failure(number, error) == [type |-> "Failure", number |-> number, error |-> error]
Unknown(number, status) == [type |-> "Unknown", number |-> number, status |-> status]

\* A plausible slip: every answer the provider accepted counts as a success.
DialNumberResultAccepting(number, result) ==
    IF result.ok THEN Success(number)
    ELSE Failure(number, to_string(result.error))

\* alert, the match of the loop over the results (lines 102-117).
DialNumberResult(number, result) ==
    IF result.ok
    THEN IF result.value.status = "active"
         THEN Success(number)
         ELSE Unknown(number, result.value.status)
    ELSE Failure(number, to_string(result.error))

AnyCall(s, type) == \E i \in 1..Len(s) : s[i].type = type

\* A plausible slip: an Unknown next to a Success is not counted as partial.
update_overall_result_ignoring_unknown(detailed_result) ==
    LET succeeded_calls == AnyCall(detailed_result, "Success")
        failed_calls == AnyCall(detailed_result, "Failure")
    IN  IF succeeded_calls /\ failed_calls THEN "PartialSuccess"
        ELSE IF succeeded_calls THEN "Success"
        ELSE "Failure"

\* A plausible slip: the batch is judged by its last outcome alone.
update_overall_result_by_last(detailed_result) ==
    IF detailed_result = <<>> THEN "Failure"
    ELSE LET last == detailed_result[Len(detailed_result)].type
         IN  IF last = "Success"
             THEN IF \A i \in 1..Len(detailed_result) :
                        detailed_result[i].type = "Success"
                  THEN "Success" ELSE "PartialSuccess"
             ELSE "Failure"

\* AlertResult::update_overall_result: the new overall_result.
update_overall_result(detailed_result) ==
    LET succeeded_calls == AnyCall(detailed_result, "Success")
        unknown_calls == AnyCall(detailed_result, "Unknown")
        failed_calls == AnyCall(detailed_result, "Failure")
    IN  IF succeeded_calls /\ (unknown_calls \/ failed_calls)
        THEN "PartialSuccess"
        ELSE IF succeeded_calls /\ ~(unknown_calls \/ failed_calls)
        THEN "Success"
        ELSE "Failure"

(***************************************************************************)
(* The requests sent to the providers                                      *)
(***************************************************************************)
Get(u, credentials, query) ==
    [method |-> "GET", url |-> u, authorization |-> credentials, query |-> query]

Post(u, credentials, form) ==
    [method |-> "POST", url |-> u, authorization |-> credentials, form |-> form]

\* snafu's .context(...): an error is wrapped in the variant `kind`.
Context(result, kind) ==
    IF result.ok THEN result ELSE Err([kind |-> kind, source |-> result.error])

(***************************************************************************)
(* config.rs: the Config built from the environment                        *)
(*                                                                         *)
(* The environment is a record over the names of the variables; a          *)
(* variable is <<>> (not set) or <<value>>.  NonUnicode is a value that    *)
(* is not valid Unicode.  The parsers are tables over the texts the model  *)
(* uses: a text outside a table is one the parser rejects.                 *)
(***************************************************************************)
EnvNames ==
    {"WYGC_ENABLE_TRACE_EXPORT", "WYGC_ENABLE_LOG_EXPORT", "WYGC_BIND_ADDRESS",
     "WYGC_BIND_PORT", "WYGC_TWILIO_TOKEN", "WYGC_TWILIO_BASEURL",
     "WYGC_TWILIO_WORKFLOW", "WYGC_TWILIO_OUTNUMBER", "WYGC_OPSGENIE_TOKEN",
     "WYGC_OPSGENIE_BASEURL", "WYGC_SLACK_TOKEN", "WYGC_SLACK_BASEURL"}

NonUnicode == "<not unicode>"

\* OsStr::to_str
to_str(value) == IF value = NonUnicode THEN <<>> ELSE <<value>>

\* env::var_os(name).unwrap_or(default)
unwrap_or(option, default) == IF option = <<>> THEN default ELSE option[1]

\* Url::parse
UrlParse(text) ==
    CASE text = "https://studio.twilio.com/v2/Flows/" ->
             Ok(Url("studio.twilio.com", <<"v2", "Flows", "">>))
      [] text = "https://api.opsgenie.com/v2/" -> Ok(Url("api.opsgenie.com", <<"v2", "">>))
      [] text = "https://hooks.slack.com/services/" ->
             Ok(Url("hooks.slack.com", <<"services", "">>))
      [] text = "mailto:flows" -> Ok(OpaqueUrl("flows"))
      [] text = "mailto:opsgenie" -> Ok(OpaqueUrl("opsgenie"))
      [] OTHER -> Err("RelativeUrlWithoutBase")

\* str::parse::<Ipv4Addr>
ParseIpv4Addr(text) ==
    CASE text = "0.0.0.0" -> Ok(<<0, 0, 0, 0>>)
      [] text = "127.0.0.1" -> Ok(<<127, 0, 0, 1>>)
      [] OTHER -> Err("AddrParseError")

\* u16::from_str
ParseU16(text) ==
    CASE text = "2368" -> Ok(2368)
      [] text = "8080" -> Ok(8080)
      [] OTHER -> Err("ParseIntError")

\* bool::from_str
ParseBool(text) ==
    CASE text = "true" -> Ok(TRUE)
      [] text = "false" -> Ok(FALSE)
      [] OTHER -> Err("ParseBoolError")

\* HeaderValue::from_str: a text with a control character is rejected.
HeaderValueFromStr(text) ==
    IF text \in {"Basic\nsecret", "GenieKey\nsecret", "Bearer\nsecret"}
    THEN Err("InvalidHeaderValue")
    ELSE Ok(text)

\* The base URL of a provider: the variable or its default, as text, parsed.
BaseUrlFromEnv(e, envname, default, service) ==
    LET text == to_str(unwrap_or(e[envname], default))
    IN  IF text = <<>>
        THEN Err([kind |-> "ConvertOsString", envname |-> envname])
        ELSE LET parsed == UrlParse(text[1])
             IN  IF parsed.ok THEN parsed
                 ELSE Err([kind |-> "ConstructBaseUrl", service |-> service,
                           source |-> parsed.error])

\* A mandatory variable read as a String.
RequiredString(e, envname) ==
    IF e[envname] = <<>>
    THEN Err([kind |-> "MissingRequiredValue", envname |-> envname])
    ELSE IF to_str(e[envname][1]) = <<>>
         THEN Err([kind |-> "ConvertOsString", envname |-> envname])
         ELSE Ok(e[envname][1])

\* A plausible slip: a credential that is not set is taken as empty.
get_secret_header_from_env_or_empty(e, envname) ==
    LET text == RequiredString(e, envname)
    IN  IF ~text.ok THEN Ok("")
        ELSE LET header == HeaderValueFromStr(text.value)
             IN  IF header.ok THEN header
                 ELSE Err([kind |-> "ConstructAuthHeader", envname |-> envname,
                           source |-> header.error])

\* The credential of a provider, as a Secret<AuthHeader>.
get_secret_header_from_env(e, envname) ==
    LET text == RequiredString(e, envname)
    IN  IF ~text.ok THEN text
        ELSE LET header == HeaderValueFromStr(text.value)
             IN  IF header.ok THEN header
                 ELSE Err([kind |-> "ConstructAuthHeader", envname |-> envname,
                           source |-> header.error])

OpsgenieConfig_new(e) ==
    LET base_url == BaseUrlFromEnv(e, "WYGC_OPSGENIE_BASEURL",
                                   "https://api.opsgenie.com/v2/", "OpsGenie")
        credentials == get_secret_header_from_env(e, "WYGC_OPSGENIE_TOKEN")
    IN  IF ~base_url.ok THEN base_url
        ELSE IF ~credentials.ok THEN credentials
        ELSE Ok([base_url |-> base_url.value, credentials |-> credentials.value])

TwilioConfig_new(e) ==
    LET base_url == BaseUrlFromEnv(e, "WYGC_TWILIO_BASEURL",
                                   "https://studio.twilio.com/v2/Flows/", "Twilio")
        credentials == get_secret_header_from_env(e, "WYGC_TWILIO_TOKEN")
        workflow_id == RequiredString(e, "WYGC_TWILIO_WORKFLOW")
        outgoing_number == RequiredString(e, "WYGC_TWILIO_OUTNUMBER")
    IN  IF ~base_url.ok THEN base_url
        ELSE IF ~credentials.ok THEN credentials
        ELSE IF ~workflow_id.ok THEN workflow_id
        ELSE IF ~outgoing_number.ok THEN outgoing_number
        ELSE Ok([base_url |-> base_url.value, credentials |-> credentials.value,
                 workflow_id |-> workflow_id.value,
                 outgoing_number |-> outgoing_number.value])

\* A plausible slip: the token is probed before the webhook URL.
SlackConfig_new_token_first(e) ==
    LET token == get_secret_header_from_env(e, "WYGC_SLACK_TOKEN")
    IN  IF ~token.ok THEN token
        ELSE IF e["WYGC_SLACK_BASEURL"] = <<>> THEN Ok(<<>>)
        ELSE LET url_ == BaseUrlFromEnv(e, "WYGC_SLACK_BASEURL", "", "slack")
             IN  IF ~url_.ok THEN url_
                 ELSE Ok(<<[url |-> url_.value, token |-> token.value]>>)

\* Ok(None) when the webhook URL is not set, whatever the token is; with
\* the URL set, the URL is parsed and then the token is mandatory.
SlackConfig_new(e) ==
    IF e["WYGC_SLACK_BASEURL"] # <<>>
    THEN LET url_ == BaseUrlFromEnv(e, "WYGC_SLACK_BASEURL", "", "slack")
             token == get_secret_header_from_env(e, "WYGC_SLACK_TOKEN")
         IN  IF ~url_.ok THEN url_
             ELSE IF ~token.ok THEN token
             ELSE Ok(<<[url |-> url_.value, token |-> token.value]>>)
    ELSE Ok(<<>>)

\* The bind address: a value that is not Unicode is reported under the name
\* of the default, as the code does.
BindAddressFromEnv(e) ==
    LET text == to_str(unwrap_or(e["WYGC_BIND_ADDRESS"], "0.0.0.0"))
    IN  IF text = <<>>
        THEN Err([kind |-> "ConvertOsString", envname |-> "0.0.0.0"])
        ELSE LET parsed == ParseIpv4Addr(text[1])
             IN  IF parsed.ok THEN parsed
                 ELSE Err([kind |-> "ParseBindAddress", envname |-> "WYGC_BIND_ADDRESS",
                           source |-> parsed.error])

BindPortFromEnv(e) ==
    LET text == to_str(unwrap_or(e["WYGC_BIND_PORT"], "2368"))
    IN  IF text = <<>>
        THEN Err([kind |-> "ConvertOsString", envname |-> "2368"])
        ELSE LET parsed == ParseU16(text[1])
             IN  IF parsed.ok THEN parsed
                 ELSE Err([kind |-> "ParsePort", envname |-> "WYGC_BIND_PORT",
                           source |-> parsed.error])

\* Config::new: every `?` returns the first error.
Config_new(e) ==
    LET bind_address == BindAddressFromEnv(e)
        bind_port == BindPortFromEnv(e)
        twilio_config == TwilioConfig_new(e)
        opsgenie_config == OpsgenieConfig_new(e)
        slack_config == SlackConfig_new(e)
    IN  IF ~bind_address.ok THEN bind_address
        ELSE IF ~bind_port.ok THEN bind_port
        ELSE IF ~twilio_config.ok THEN twilio_config
        ELSE IF ~opsgenie_config.ok THEN opsgenie_config
        ELSE IF ~slack_config.ok THEN slack_config
        ELSE Ok([bind_address |-> bind_address.value,
                 bind_port |-> bind_port.value,
                 opsgenie_config |-> opsgenie_config.value,
                 twilio_config |-> twilio_config.value,
                 slack_config |-> slack_config.value])

\* enable_trace_exporter, enable_log_exporter
extract_env_as_bool(e, envname, default) ==
    IF e[envname] = <<>> THEN Ok(default)
    ELSE IF to_str(e[envname][1]) = <<>>
         THEN Err([kind |-> "ConvertEnvString", envname |-> envname,
                   source |-> "NotUnicode"])
         ELSE LET parsed == ParseBool(e[envname][1])
              IN  IF parsed.ok THEN parsed
                  ELSE Err([kind |-> "ParseBool", envname |-> envname,
                            source |-> parsed.error])

(***************************************************************************)
(* What the logs show.  Secret<AuthHeader> implements DebugSecret: its     *)
(* Debug is a placeholder, and expose_secret gives the header value.  A    *)
(* HeaderValue built by from_str is not marked sensitive: its Debug is     *)
(* the value.  A log line is kept with the Debug rendering of the Config   *)
(* or of the HeaderMap it formats.                                         *)
(***************************************************************************)
expose_secret(secret) == secret

DebugSecret(secret) == "[REDACTED]"

DebugConfig(c) ==
    [c EXCEPT !.twilio_config.credentials = DebugSecret(@),
              !.opsgenie_config.credentials = DebugSecret(@),
              !.slack_config = IF @ = <<>> THEN @
                               ELSE <<[@[1] EXCEPT !.token = DebugSecret(@)]>>]

DebugHeaderMap(headers) == headers

\* The HeaderMap of a request to a provider: AUTHORIZATION is the exposed
\* credential.
OutgoingHeaders(credentials) == [authorization |-> expose_secret(credentials)]

ConfigLine(site, level, c) ==
    [site |-> site, level |-> level, kind |-> "Config", value |-> DebugConfig(c)]

HeadersLine(site, level, headers) ==
    [site |-> site, level |-> level, kind |-> "HeaderMap",
     value |-> DebugHeaderMap(headers)]

\* #[instrument] on the handlers records `state` (AppState holds the Config).
HandlerSpan(req) ==
    IF req.handler = "get_person_on_call" THEN "main.rs:240" ELSE "main.rs:255"

(***************************************************************************)
(* twilio::alert                                                           *)
(***************************************************************************)
\* The requests of lines 75-93: join_all polls every future once, in the
\* order of `numbers`, and each sends its POST.
DialRequests(u, twilio_config, nums) ==
    [i \in 1..Len(nums) |->
        Post(u, twilio_config.credentials,
             [From |-> twilio_config.outgoing_number, To |-> nums[i]])]

\* A plausible slip: the closure tags its output with the first number.
DialOutputFirstNumber(nums, i, result) == [number |-> nums[1], result |-> result]

\* The output of the i-th future: (number.clone(), result).
DialOutput(nums, i, result) == [number |-> nums[i], result |-> result]

Pending == [done |-> FALSE]
Done(output) == [done |-> TRUE, output |-> output]

\* join_all is ready when every future is.
BatchDone(s) == \A i \in 1..Len(s) : s[i].done

\* join_all's output: the outputs in the order of the futures.
join_all(s) == [i \in 1..Len(s) |-> s[i].output]

DetailedResult(results) ==
    [i \in 1..Len(results) |->
        DialNumberResult(results[i].number, results[i].result)]

\* A plausible slip: the first failed request is returned with `?`.
AlertReturnFailFast(results) ==
    IF \E i \in 1..Len(results) : ~results[i].result.ok
    THEN LET i == CHOOSE k \in 1..Len(results) : ~results[k].result.ok
         IN  Err([kind |-> "RunWorkflow", source |-> results[i].result.error])
    ELSE Ok([overall_result |-> update_overall_result(DetailedResult(results)),
             detailed_result |-> DetailedResult(results)])

\* Lines 97-125: the AlertResult built from the results of the batch.
AlertReturn(results) ==
    Ok([overall_result |-> update_overall_result(DetailedResult(results)),
        detailed_result |-> DetailedResult(results)])

\* What the caller of twilio::alert makes of its return value: alert_on_call
\* wraps an error in RequestError::Twilio.
AlertReply(result) ==
    IF request.handler = "alert_on_call" THEN Context(result, "Twilio") ELSE result

\* The workflow alert builds its URL for.
ExecutionsOf(workflow) == <<workflow, "Executions", "">>

\* twilio::alert from its entry to the await of the batch.
Dispatch(nums, hlog) ==
    LET twilio_config == config.twilio_config
        url_builder == Join(twilio_config.base_url,
                            ExecutionsOf(twilio_config.workflow_id))
    IN  /\ numbers' = nums
        /\ order' = <<>>
        /\ log' = Append(log, ConfigLine("twilio.rs:42", "INFO", config))
        /\ IF ~url_builder.ok
           THEN /\ reply' = <<AlertReply(Context(url_builder, "BuildUrl"))>>
                /\ pc' = "done"
                /\ http_log' = hlog
                /\ UNCHANGED <<url, slots>>
           ELSE /\ url' = <<url_builder.value>>
                /\ slots' = [i \in 1..Len(nums) |-> Pending]
                /\ http_log' = hlog \o DialRequests(url_builder.value, twilio_config, nums)
                /\ pc' = "dial_wait"
                /\ UNCHANGED reply

\* twilio::alert called with `numbers`.
alert ==
    /\ pc = "alert"
    /\ Dispatch(numbers, http_log)
    /\ UNCHANGED <<env, config, request, persons_on_call, contact_log, result_list, lookup>>

\* The provider answers the i-th dial request with `raw`.
DialComplete(i, raw) ==
    /\ pc = "dial_wait"
    /\ i \in 1..Len(slots)
    /\ ~slots[i].done
    /\ slots' = [slots EXCEPT ![i] =
                    Done(DialOutput(numbers, i,
                                    send_json_request(raw, url[1], "TwilioResponse")))]
    /\ order' = Append(order, i)
    /\ UNCHANGED <<pc, env, config, request, persons_on_call, contact_log, result_list,
                   lookup, numbers, url, http_log, log, reply>>

\* The batch is complete: twilio::alert from line 93 to its return.
AlertJoin ==
    /\ pc = "dial_wait"
    /\ BatchDone(slots)
    /\ reply' = <<AlertReply(AlertReturn(join_all(slots)))>>
    /\ pc' = "done"
    /\ UNCHANGED <<env, config, request, persons_on_call, contact_log, result_list,
                   lookup, numbers, url, slots, order, http_log, log>>

(***************************************************************************)
(* opsgenie::get_oncall_number                                             *)
(***************************************************************************)
\* The Schedule of the request: get_person_on_call takes it from the query,
\* alert_on_call makes a ScheduleByName of the query's schedule.
ScheduleOf(req) ==
    IF req.handler = "alert_on_call"
    THEN [tag |-> "ScheduleByName", identifier |-> req.schedule]
    ELSE req.schedule

schedule_identifier_type(schedule) ==
    IF schedule.tag = "ScheduleById" THEN "id" ELSE "name"

\* A plausible slip: the wrong variant for the empty list.
CheckRecipientsWrongVariant(on_call_recipients) ==
    IF on_call_recipients = <<>>
    THEN Err([kind |-> "RequestOnCallPerson", source |-> [kind |-> "ParseJson"]])
    ELSE Ok(on_call_recipients)

\* Lines 101-107: on_call_recipients.get(0).context(NoOnCallPersonSnafu)?
CheckRecipients(on_call_recipients) ==
    IF on_call_recipients = <<>>
    THEN Err([kind |-> "NoOnCallPerson"])
    ELSE Ok(on_call_recipients)

\* A plausible slip: a recipient whose lookup failed is left out of the roster.
ContactStepSkipping(list, user, phone_number) ==
    IF ~phone_number.ok
    THEN [ret |-> <<>>, list |-> list]
    ELSE [ret |-> <<>>,
          list |-> Append(list, [name |-> user, phone |-> phone_number.value])]

\* The body of the for loop (lines 111-120) once get_phone_number has
\* returned: `ret` is what the `?` returns (<<>> when it does not return),
\* `list` the result_list after the body.
ContactStep(list, user, phone_number) ==
    IF ~phone_number.ok
    THEN [ret |-> <<Err([kind |-> "RequestPhoneNumberForPerson",
                         username |-> user, source |-> phone_number.error])>>,
          list |-> list]
    ELSE [ret |-> <<>>,
          list |-> Append(list, [name |-> user, phone |-> phone_number.value])]

\* A plausible slip: a first recipient without a number is not an error.
AssembleWithoutNumber(list) ==
    IF list = <<>>
    THEN Err([kind |-> "NoOnCallPerson"])
    ELSE LET user == list[1]
         IN  Ok([username |-> user.name,
                 phone_number |-> IF user.phone = <<>> THEN <<>> ELSE user.phone[1],
                 full_information |-> list])

\* A plausible slip: the last entry of the roster is taken as the primary.
AssembleLast(list) ==
    IF list = <<>>
    THEN Err([kind |-> "NoOnCallPerson"])
    ELSE LET user == list[Len(list)]
         IN  IF user.phone = <<>>
             THEN Err([kind |-> "NoPhoneNumber", username |-> user.name])
             ELSE Ok([username |-> user.name, phone_number |-> user.phone[1],
                      full_information |-> list])

\* Lines 123-132: the AlertInfo, or the error, after the loop.
Assemble(list) ==
    IF list = <<>>
    THEN Err([kind |-> "NoOnCallPerson"])
    ELSE LET user == list[1]
         IN  IF user.phone = <<>>
             THEN Err([kind |-> "NoPhoneNumber", username |-> user.name])
             ELSE Ok([username |-> user.name, phone_number |-> user.phone[1],
                      full_information |-> list])

\* A plausible slip: only the numbers of the primary person are dialed.
FlattenPrimary(full_information) ==
    IF full_information = <<>> THEN <<>> ELSE Head(full_information).phone

\* main.rs, lines 274-279: the phone numbers of all persons, flattened.
RECURSIVE Flatten(_)
Flatten(full_information) ==
    IF full_information = <<>> THEN <<>>
    ELSE Head(full_information).phone \o Flatten(Tail(full_information))

\* get_oncall_number has returned `result`: the handler from there to its
\* reply or to its next await.  get_person_on_call replies with the result;
\* alert_on_call replies with an error, or goes on with twilio::alert.
Return(result, hlog) ==
    /\ lookup' = <<result>>
    /\ IF request.handler = "get_person_on_call" \/ ~result.ok
       THEN /\ reply' = <<Context(result, "OpsGenie")>>
            /\ pc' = "done"
            /\ http_log' = hlog
            /\ UNCHANGED <<numbers, url, slots, order, log>>
       ELSE Dispatch(Flatten(result.value.full_information), hlog)

\* The for loop of get_oncall_number at the position Len(clog): the lookup of
\* the next user is sent (get_phone_number to its await), or the loop is over.
Continue(on_call_recipients, list, clog) ==
    /\ result_list' = list
    /\ contact_log' = clog
    /\ IF Len(clog) < Len(on_call_recipients)
       THEN LET opsgenie_config == config.opsgenie_config
                username == on_call_recipients[Len(clog) + 1]
                url_builder == Join(opsgenie_config.base_url, <<"users", username>>)
                headers == OutgoingHeaders(opsgenie_config.credentials)
            IN  /\ log' = Append(log, HeadersLine("opsgenie.rs:168", "DEBUG", headers))
                /\ http_log' = Append(http_log,
                                      Get(url_builder.value, headers.authorization,
                                          [expand |-> "contact"]))
                /\ pc' = "contact_wait"
                /\ UNCHANGED <<lookup, numbers, url, slots, order, reply>>
       ELSE Return(Assemble(list), http_log)

\* The handler's entry: get_oncall_number to the await of the on-call request.
\* The join is unwrapped: a base URL that cannot be a base panics.
get_oncall_number ==
    /\ pc = "request"
    /\ LET opsgenie_config == config.opsgenie_config
           schedule == ScheduleOf(request)
           url_builder == Join(opsgenie_config.base_url,
                               <<"schedules", schedule.identifier, "on-calls">>)
           outgoing_headers == OutgoingHeaders(opsgenie_config.credentials)
           span == ConfigLine(HandlerSpan(request), "INFO", config)
       IN  IF ~url_builder.ok
           THEN /\ pc' = "panicked"
                /\ log' = Append(log, span)
                /\ UNCHANGED http_log
           ELSE /\ pc' = "oncall_wait"
                /\ log' = log \o <<span, HeadersLine("opsgenie.rs:88", "DEBUG",
                                                      outgoing_headers)>>
                /\ http_log' = Append(http_log,
                        Get(url_builder.value, outgoing_headers.authorization,
                            [flat |-> "true",
                             scheduleIdentifierType |-> schedule_identifier_type(schedule)]))
    /\ UNCHANGED <<env, config, request, persons_on_call, contact_log, result_list,
                   lookup, numbers, url, slots, order, reply>>

\* The roster provider answers the on-call request with `raw`.
OnCallResponse(raw) ==
    /\ pc = "oncall_wait"
    /\ LET result == send_json_request(raw, http_log[Len(http_log)].url, "OnCallResult")
       IN  /\ persons_on_call' = <<result>>
           /\ IF ~result.ok
              THEN /\ Return(Context(result, "RequestOnCallPerson"), http_log)
                   /\ UNCHANGED <<result_list, contact_log>>
              ELSE LET checked == CheckRecipients(result.value)
                   IN  IF ~checked.ok
                       THEN /\ Return(checked, http_log)
                            /\ UNCHANGED <<result_list, contact_log>>
                       ELSE Continue(result.value, <<>>, <<>>)
    /\ UNCHANGED <<env, config, request>>

\* The roster provider answers the contact request of the current user with `raw`.
ContactResponse(raw) ==
    /\ pc = "contact_wait"
    /\ LET on_call_recipients == persons_on_call[1].value
           user == on_call_recipients[Len(contact_log) + 1]
           contact_information ==
               send_json_request(raw, http_log[Len(http_log)].url,
                                 "ContactInformationResult")
           phone_number == IF contact_information.ok
                           THEN Ok(NumbersOf(contact_information.value))
                           ELSE contact_information
           step == ContactStep(result_list, user, phone_number)
           clog == Append(contact_log, [username |-> user, result |-> phone_number])
       IN  IF step.ret # <<>>
           THEN /\ result_list' = step.list
                /\ contact_log' = clog
                /\ Return(step.ret[1], http_log)
           ELSE Continue(on_call_recipients, step.list, clog)
    /\ UNCHANGED <<env, config, request, persons_on_call>>

(***************************************************************************)
(* The functions called on their own: `request` is the call with its       *)
(* arguments, `reply` the value returned.                                  *)
(***************************************************************************)
Returns(function, value) ==
    /\ pc = "call"
    /\ request.handler = function
    /\ reply' = <<value>>
    /\ pc' = "returned"
    /\ UNCHANGED <<env, config, request, persons_on_call, contact_log, result_list,
                   lookup, numbers, url, slots, order, http_log, log>>

\* format_phone_number(number)
call_format_phone_number ==
    Returns("format_phone_number", format_phone_number(request.number))

\* get_phone_number from line 177 on: the numbers of the deserialized
\* contact_information.data.userContacts.
call_get_phone_number ==
    Returns("get_phone_number", NumbersOf(request.userContacts))

\* send_json_request::<T> on a request to request.url that the peer
\* answers with request.raw.
call_send_json_request ==
    Returns("send_json_request", send_json_request(request.raw, request.url, request.T))

(***************************************************************************)
(* main.rs: run, from the start of the process to the server              *)
(***************************************************************************)
\* What can fail in run besides the configuration.
OsFaults ==
    {"none", "InitializeTelemetry", "RegisterSigterm", "ConstructHttpClient", "RunServer"}

\* run to server.run(): the exporters are read, tracing is initialised, the
\* Config is built and logged, the client and the router are built.  Every
\* error returns from run; main prints it and exits with FAILURE.
run(fault) ==
    /\ pc = "main"
    /\ LET trace_exporter == extract_env_as_bool(env, "WYGC_ENABLE_TRACE_EXPORT", FALSE)
           log_exporter == extract_env_as_bool(env, "WYGC_ENABLE_LOG_EXPORT", FALSE)
           parsed == Config_new(env)
           result ==
               IF ~trace_exporter.ok THEN Context(trace_exporter, "ParseConfig")
               ELSE IF ~log_exporter.ok THEN Context(log_exporter, "ParseConfig")
               ELSE IF fault = "InitializeTelemetry" THEN Err([kind |-> fault])
               ELSE IF ~parsed.ok THEN Context(parsed, "ParseConfig")
               ELSE IF fault # "none" THEN Err([kind |-> fault])
               ELSE Ok(parsed.value)
           config_logged == /\ trace_exporter.ok /\ log_exporter.ok
                            /\ fault # "InitializeTelemetry" /\ parsed.ok
       IN  /\ log' = IF config_logged
                     THEN Append(log, ConfigLine("main.rs:128", "INFO", parsed.value))
                     ELSE log
           /\ IF result.ok
              THEN /\ pc' = "serving"
                   /\ config' = result.value
                   /\ UNCHANGED reply
              ELSE /\ pc' = "exit_failure"
                   /\ reply' = <<result>>
                   /\ UNCHANGED config
    /\ UNCHANGED <<env, request, persons_on_call, contact_log, result_list, lookup,
                   numbers, url, slots, order, http_log>>

\* The server hands a request to its handler.
accept(req) ==
    /\ pc = "serving"
    /\ pc' = "request"
    /\ request' = req
    /\ UNCHANGED <<env, config, persons_on_call, contact_log, result_list, lookup,
                   numbers, url, slots, order, http_log, log, reply>>

(***************************************************************************)
(* The inputs: configurations, requests and the providers' answers         *)
(***************************************************************************)
MaxNumbers == 3      \* SpecDispatch: the longest list of numbers
MaxRecipients == 2   \* SpecRoster: the longest list of on-call recipients
MaxContacts == 2     \* SpecRoster: the most contacts of a user
MaxNumberLen == 3    \* SpecCalls: the longest text format_phone_number is given

WorkflowIds == {"FW1", "FW2"}

\* TWILIO_BASEURL_DEFAULT, and a URL that Url::parse accepts and that cannot
\* be a base.
TwilioBaseUrls == {Url("studio.twilio.com", <<"v2", "Flows", "">>), OpaqueUrl("flows")}

\* OPSGENIE_BASEURL_DEFAULT, and a URL that cannot be a base.
OpsgenieBaseUrls == {Url("api.opsgenie.com", <<"v2", "">>), OpaqueUrl("opsgenie")}

ConfigsOf(opsgenie_urls, twilio_urls) ==
    [bind_address : {<<0, 0, 0, 0>>},
     bind_port : {2368},
     opsgenie_config : [base_url : opsgenie_urls, credentials : {"GenieKey secret"}],
     twilio_config : [base_url : twilio_urls, credentials : {"Basic secret"},
                      workflow_id : WorkflowIds, outgoing_number : {"+15550100"}],
     slack_config : {<<>>}]

Configs == ConfigsOf(OpsgenieBaseUrls, TwilioBaseUrls)

UrlTexts ==
    {"https://studio.twilio.com/v2/Flows/", "https://api.opsgenie.com/v2/",
     "https://hooks.slack.com/services/", "mailto:flows", "mailto:opsgenie"}

\* Url::to_string
UrlToString(u) == CHOOSE text \in UrlTexts : UrlParse(text) = Ok(u)

\* The environment a served Config was built from: the mandatory values and
\* the base URLs are set, everything else is left to its default.
EnvOf(c) ==
    [WYGC_ENABLE_TRACE_EXPORT |-> <<>>,
     WYGC_ENABLE_LOG_EXPORT |-> <<>>,
     WYGC_BIND_ADDRESS |-> <<>>,
     WYGC_BIND_PORT |-> <<>>,
     WYGC_TWILIO_TOKEN |-> <<c.twilio_config.credentials>>,
     WYGC_TWILIO_BASEURL |-> <<UrlToString(c.twilio_config.base_url)>>,
     WYGC_TWILIO_WORKFLOW |-> <<c.twilio_config.workflow_id>>,
     WYGC_TWILIO_OUTNUMBER |-> <<c.twilio_config.outgoing_number>>,
     WYGC_OPSGENIE_TOKEN |-> <<c.opsgenie_config.credentials>>,
     WYGC_OPSGENIE_BASEURL |-> <<UrlToString(c.opsgenie_config.base_url)>>,
     WYGC_SLACK_TOKEN |-> <<>>,
     WYGC_SLACK_BASEURL |-> <<>>]

\* The environments of the startup: every variable not set, set to a value
\* its parser accepts, or set to one it rejects.
Envs ==
    [WYGC_ENABLE_TRACE_EXPORT : {<<>>, <<"yes">>},
     WYGC_ENABLE_LOG_EXPORT : {<<>>, <<"true">>},
     WYGC_BIND_ADDRESS : {<<>>, <<"localhost">>},
     WYGC_BIND_PORT : {<<>>, <<"99999">>},
     WYGC_TWILIO_TOKEN : {<<>>, <<"Basic secret">>, <<"Basic\nsecret">>},
     WYGC_TWILIO_BASEURL : {<<>>, <<"mailto:flows">>, <<"studio.twilio.com">>},
     WYGC_TWILIO_WORKFLOW : {<<>>, <<"FW1">>},
     WYGC_TWILIO_OUTNUMBER : {<<>>, <<"+15550100">>},
     WYGC_OPSGENIE_TOKEN : {<<>>, <<"GenieKey secret">>, <<NonUnicode>>},
     WYGC_OPSGENIE_BASEURL : {<<>>, <<"opsgenie">>},
     WYGC_SLACK_TOKEN : {<<>>, <<"Bearer secret">>, <<"Bearer\nsecret">>},
     WYGC_SLACK_BASEURL : {<<>>, <<"https://hooks.slack.com/services/">>, <<"hooks">>}]

Users == {"alice", "bob"}

\* "2", "12", "1-2", "1": two of them are the same number once formatted.
ToStrings == {<<50>>, <<49, 50>>, <<49, Dash, 50>>, <<49>>}

ContactMethods == {"voice", "sms", "email"}

UserContacts == [to : ToStrings, contactMethod : ContactMethods]

ErrorText == <<Space, 110, 111, Space>>

\* The answers that are no value of the type asked for.
FailingAnswers ==
    {NetworkError,
     HttpResponse(500, TRUE, ErrorText, NotJson),
     HttpResponse(404, FALSE, <<>>, NotJson),
     HttpResponse(200, TRUE, <<>>, NotJson)}

JsonAnswers(type, values) ==
    {HttpResponse(200, TRUE, <<>>, Json(type, v)) : v \in values}

OnCallAnswers(recipient_lists) ==
    FailingAnswers \cup JsonAnswers("OnCallResult", recipient_lists)

ContactAnswers(contact_lists) ==
    FailingAnswers \cup JsonAnswers("ContactInformationResult", contact_lists)

TwilioStatuses == {"active", "queued"}

DialAnswers ==
    FailingAnswers \cup JsonAnswers("TwilioResponse", [status : TwilioStatuses])

\* The numbers twilio::alert is called with on its own.
DialNumbers == {format_phone_number(<<49>>), format_phone_number(<<50>>)}

(***************************************************************************)
(* The service: one request of either handler, with a few answers of the   *)
(* providers.                                                              *)
(***************************************************************************)
LookupRequests ==
    [handler : {"get_person_on_call"},
     schedule : [tag : {"ScheduleById", "ScheduleByName"}, identifier : {"ops"}]]

AlertRequests ==
    [handler : {"alert_on_call"}, schedule : {"ops"}, twilio_workflow : WorkflowIds]

ServiceRecipientLists == {<<>>, <<"alice">>, <<"bob", "alice">>}

ServiceContactLists ==
    {<<>>,
     <<[to |-> <<49>>, contactMethod |-> "voice"]>>,
     <<[to |-> <<50>>, contactMethod |-> "sms"],
       [to |-> <<49, Dash, 50>>, contactMethod |-> "voice"]>>}

ServiceDialAnswers ==
    {NetworkError} \cup JsonAnswers("TwilioResponse", [status : TwilioStatuses])

InitWith(start, configs, requests, number_lists) ==
    /\ pc = start
    /\ config \in configs
    /\ env = EnvOf(config)
    /\ request \in requests
    /\ numbers \in number_lists
    /\ persons_on_call = <<>>
    /\ contact_log = <<>>
    /\ result_list = <<>>
    /\ lookup = <<>>
    /\ url = <<>>
    /\ slots = <<>>
    /\ order = <<>>
    /\ http_log = <<>>
    /\ log = <<>>
    /\ reply = <<>>

Init == InitWith("request", Configs, LookupRequests \cup AlertRequests, {<<>>})

Next ==
    \/ get_oncall_number
    \/ \E raw \in OnCallAnswers(ServiceRecipientLists) : OnCallResponse(raw)
    \/ \E raw \in ContactAnswers(ServiceContactLists) : ContactResponse(raw)
    \/ \E i \in 1..Len(slots) : \E raw \in ServiceDialAnswers : DialComplete(i, raw)
    \/ AlertJoin

Spec == Init /\ [][Next]_vars

(***************************************************************************)
(* twilio::alert on its own: every list of numbers up to MaxNumbers and    *)
(* every answer of the dialer.                                             *)
(***************************************************************************)
DispatchInit ==
    InitWith("alert", ConfigsOf({Url("api.opsgenie.com", <<"v2", "">>)}, TwilioBaseUrls),
             {[handler |-> "alert"]}, SeqsUpTo(DialNumbers, MaxNumbers))

DispatchNext ==
    \/ alert
    \/ \E i \in 1..Len(slots) : \E raw \in DialAnswers : DialComplete(i, raw)
    \/ AlertJoin

SpecDispatch == DispatchInit /\ [][DispatchNext]_vars

(***************************************************************************)
(* get_oncall_number on its own (the handler get_person_on_call): every    *)
(* list of recipients up to MaxRecipients, every list of contacts up to    *)
(* MaxContacts.                                                            *)
(***************************************************************************)
RosterInit ==
    InitWith("request",
             ConfigsOf(OpsgenieBaseUrls, {Url("studio.twilio.com", <<"v2", "Flows", "">>)}),
             LookupRequests, {<<>>})

RosterNext ==
    \/ get_oncall_number
    \/ \E raw \in OnCallAnswers(SeqsUpTo(Users, MaxRecipients)) : OnCallResponse(raw)
    \/ \E raw \in ContactAnswers(SeqsUpTo(UserContacts, MaxContacts)) : ContactResponse(raw)

SpecRoster == RosterInit /\ [][RosterNext]_vars

(***************************************************************************)
(* The functions on their own: format_phone_number on every text up to     *)
(* MaxNumberLen, the numbers of every list of contacts up to MaxContacts,  *)
(* send_json_request on every answer of TransportAnswers.                  *)
(***************************************************************************)
NumberTexts == SeqsUpTo({Plus, Dash, Space, 49}, MaxNumberLen)

TransportStatuses == {200, 204, 302, 400, 404, 499, 500, 599}

TransportAnswers ==
    {NetworkError} \cup
    {HttpResponse(status, readable, text, json) :
        status \in TransportStatuses, readable \in BOOLEAN, text \in {<<>>, ErrorText},
        json \in {NotJson, Json("TwilioResponse", [status |-> "active"]),
                  Json("OnCallResult", <<>>)}}

Calls ==
    [handler : {"format_phone_number"}, number : NumberTexts]
    \cup [handler : {"get_phone_number"},
          userContacts : SeqsUpTo(UserContacts, MaxContacts)]
    \cup [handler : {"send_json_request"}, raw : TransportAnswers,
          url : {Url("api.opsgenie.com", <<"v2", "users", "alice">>)},
          T : {"TwilioResponse", "OnCallResult"}]

CallsInit ==
    InitWith("call",
             ConfigsOf({Url("api.opsgenie.com", <<"v2", "">>)},
                       {Url("studio.twilio.com", <<"v2", "Flows", "">>)}),
             Calls, {<<>>})

CallsNext ==
    \/ call_format_phone_number
    \/ call_get_phone_number
    \/ call_send_json_request

SpecCalls == CallsInit /\ [][CallsNext]_vars

(***************************************************************************)
(* The startup: run under every environment of Envs, then the first        *)
(* request accepted by the server.                                         *)
(***************************************************************************)
StartupInit ==
    /\ pc = "main"
    /\ env \in Envs
    /\ config = <<>>
    /\ request = <<>>
    /\ numbers = <<>>
    /\ persons_on_call = <<>>
    /\ contact_log = <<>>
    /\ result_list = <<>>
    /\ lookup = <<>>
    /\ url = <<>>
    /\ slots = <<>>
    /\ order = <<>>
    /\ http_log = <<>>
    /\ log = <<>>
    /\ reply = <<>>

StartupNext ==
    \/ \E fault \in OsFaults : run(fault)
    \/ \E req \in LookupRequests \cup AlertRequests : accept(req)

SpecStartup == StartupInit /\ [][StartupNext]_vars

(***************************************************************************)
(* Properties of twilio::alert (SpecDispatch)                              *)
(***************************************************************************)
\* twilio::alert has returned an AlertResult.
Dialed == pc = "done" /\ reply # <<>> /\ reply[1].ok

Overall == reply[1].value.overall_result
Detailed == reply[1].value.detailed_result

\* The answer to the i-th request, as send_json_request returned it.
Answer(i) == slots[i].output.result

HowMany(type) == Cardinality({i \in 1..Len(Detailed) : Detailed[i].type = type})

\* C1: for every list of per-number outcomes, the empty one included, the
\* overall result is Success exactly when there is a Success and neither an
\* Unknown nor a Failure, PartialSuccess exactly when there is a Success and
\* also an Unknown or a Failure, and Failure exactly when there is no Success.
C1_OverallRule ==
    Dialed =>
        /\ Overall \in {"Success", "PartialSuccess", "Failure"}
        /\ Overall = "Success" <=>
              (HowMany("Success") > 0 /\ HowMany("Unknown") = 0 /\ HowMany("Failure") = 0)
        /\ Overall = "PartialSuccess" <=>
              (HowMany("Success") > 0 /\ HowMany("Unknown") + HowMany("Failure") > 0)
        /\ Overall = "Failure" <=> HowMany("Success") = 0

\* A batch of Unknown outcomes alone has been judged a Failure.
C1_Witness ==
    /\ Dialed
    /\ Len(Detailed) >= 2
    /\ HowMany("Unknown") = Len(Detailed)
    /\ Overall = "Failure"

\* C2, as stated: twilio::alert never returns a request-level error.
C2_NeverRequestError == pc = "done" => reply[1].ok

\* C2, amended: twilio::alert returns an error only when the call-trigger URL
\* cannot be built, and then no number is dialed; otherwise every number is
\* dialed and reported, a failed request as a Failure of its number, and the
\* numbers whose requests did not fail as something else than a Failure.
C2_ErrorOnlyFromBuildUrl ==
    pc = "done" =>
        /\ reply[1].ok <=> ~config.twilio_config.base_url.cannot_be_a_base
        /\ ~reply[1].ok => (reply[1].error.kind = "BuildUrl" /\ http_log = <<>>)
        /\ reply[1].ok =>
              /\ Len(http_log) = Len(numbers)
              /\ Len(Detailed) = Len(numbers)
              /\ \A i \in 1..Len(numbers) :
                    /\ Detailed[i].number = numbers[i]
                    /\ Detailed[i].type = "Failure" <=> ~Answer(i).ok

\* A request failed, another succeeded, and both are in the AlertResult.
C2_Witness ==
    /\ Dialed
    /\ \E i, j \in 1..Len(numbers) :
          /\ ~Answer(i).ok /\ Detailed[i].type = "Failure"
          /\ Answer(j).ok /\ Detailed[j].type = "Success"
          /\ numbers[i] # numbers[j]

Launched == pc = "dial_wait" \/ Dialed

OutcomesAsCompleted ==
    [k \in 1..Len(order) |-> DialNumberResult(numbers[order[k]], Answer(order[k]))]

\* C5: all requests are sent before any answer is awaited, the AlertResult
\* is made only when every request has completed, and its overall result is
\* the one the outcomes give in the order of their completion too.
C5_BatchThenOrderFreeFold ==
    /\ pc = "dial_wait" =>
          /\ Len(slots) = Len(numbers)
          /\ Len(http_log) = Len(slots)
    /\ Dialed =>
          /\ BatchDone(slots)
          /\ Len(order) = Len(numbers)
          /\ Range(order) = 1..Len(numbers)
          /\ Overall = update_overall_result(OutcomesAsCompleted)

\* The last request answered first with a failure, the first one last.
C5_Witness ==
    /\ Dialed
    /\ Len(numbers) = 3
    /\ order = <<3, 1, 2>>
    /\ ~Answer(3).ok
    /\ Detailed[2].type = "Success"
    /\ Overall = "PartialSuccess"

(***************************************************************************)
(* Properties of the service (Spec)                                        *)
(***************************************************************************)
\* C6: the call-trigger URL of an alert request is the dialer's base URL
\* joined with the workflow identifier of that request.
C6_UrlOfRequestedWorkflow ==
    (request.handler = "alert_on_call" /\ url # <<>>) =>
        /\ Join(config.twilio_config.base_url, ExecutionsOf(request.twilio_workflow))
              = Ok(url[1])
        /\ \A k \in 1..Len(http_log) :
              http_log[k].method = "POST" => http_log[k].url = url[1]

(***************************************************************************)
(* Properties of get_oncall_number (SpecRoster)                            *)
(***************************************************************************)
Returned == lookup # <<>>

\* The provider has answered the on-call request with a list of recipients.
Recipients == persons_on_call[1].value

UserRequests == {k \in 1..Len(http_log) : http_log[k].url.path[Len(http_log[k].url.path) - 1] = "users"}

\* C7: when the provider answers with an empty list of recipients,
\* get_oncall_number returns NoOnCallPerson, and no contact lookup is sent.
C7_NoOneOnCall ==
    (persons_on_call # <<>> /\ persons_on_call[1].ok /\ Recipients = <<>>) =>
        /\ lookup = <<Err([kind |-> "NoOnCallPerson"])>>
        /\ pc = "done"
        /\ ~reply[1].ok
        /\ contact_log = <<>>
        /\ UserRequests = {}

\* The provider answered with an empty list, and the handler has replied.
C7_Witness ==
    /\ persons_on_call = <<Ok(<<>>)>>
    /\ pc = "done"
    /\ Len(http_log) = 1

\* C8: when the contact lookup of a recipient fails, at whatever position,
\* get_oncall_number returns RequestPhoneNumberForPerson for that recipient
\* with the error of the lookup, and no roster.
C8_LookupFailureFailsResolution ==
    \A k \in 1..Len(contact_log) :
        ~contact_log[k].result.ok =>
            /\ k = Len(contact_log)
            /\ lookup = <<Err([kind |-> "RequestPhoneNumberForPerson",
                               username |-> Recipients[k],
                               source |-> contact_log[k].result.error])>>
            /\ pc = "done"
            /\ ~reply[1].ok

\* The second recipient's lookup failed after the first one's gave numbers.
C8_Witness ==
    /\ Len(contact_log) = 2
    /\ contact_log[1].result.ok
    /\ contact_log[1].result.value # <<>>
    /\ ~contact_log[2].result.ok
    /\ Returned

\* Every recipient has been looked up, and with success.
AllLookupsSucceeded ==
    /\ Returned
    /\ persons_on_call[1].ok
    /\ Recipients # <<>>
    /\ Len(contact_log) = Len(Recipients)
    /\ \A k \in 1..Len(contact_log) : contact_log[k].result.ok

NumbersFound(k) == contact_log[k].result.value

\* The roster has an entry per recipient, in the provider's order.
RosterInProviderOrder ==
    LET roster == lookup[1].value.full_information
    IN  /\ Len(roster) = Len(Recipients)
        /\ \A k \in 1..Len(Recipients) :
              /\ roster[k].name = Recipients[k]
              /\ roster[k].phone = NumbersFound(k)

\* C9, as stated: when all lookups succeed, the AlertInfo names the first
\* recipient that has a number as primary, with that recipient's first
\* number, and has an entry per recipient in the provider's order.
C9_PrimaryIsFirstWithNumber ==
    (AllLookupsSucceeded /\ \E k \in 1..Len(Recipients) : NumbersFound(k) # <<>>) =>
        LET first == CHOOSE k \in 1..Len(Recipients) :
                        /\ NumbersFound(k) # <<>>
                        /\ \A j \in 1..(k - 1) : NumbersFound(j) = <<>>
        IN  /\ lookup[1].ok
            /\ lookup[1].value.username = Recipients[first]
            /\ lookup[1].value.phone_number = NumbersFound(first)[1]
            /\ RosterInProviderOrder

\* C9, amended: when all lookups succeed and the first recipient has a
\* number, the AlertInfo names the first recipient as primary, with its first
\* number, and has an entry per recipient in the provider's order; when the
\* first recipient has no number, the result is NoPhoneNumber for it.
C9_PrimaryIsFirstRecipient ==
    AllLookupsSucceeded =>
        IF NumbersFound(1) # <<>>
        THEN /\ lookup[1].ok
             /\ lookup[1].value.username = Recipients[1]
             /\ lookup[1].value.phone_number = NumbersFound(1)[1]
             /\ RosterInProviderOrder
        ELSE lookup[1] = Err([kind |-> "NoPhoneNumber", username |-> Recipients[1]])

\* Two different recipients, both with numbers, are in the AlertInfo.
C9_Witness ==
    /\ AllLookupsSucceeded
    /\ lookup[1].ok
    /\ Len(Recipients) = 2
    /\ Recipients[1] # Recipients[2]
    /\ Len(NumbersFound(1)) = 2
    /\ NumbersFound(2) # <<>>
    /\ NumbersFound(2) # NumbersFound(1)

\* C10: in every AlertInfo returned, the numbers of every entry are in
\* ascending order, without duplicates.
C10_SortedNoDuplicates ==
    (Returned /\ lookup[1].ok) =>
        \A e \in 1..Len(lookup[1].value.full_information) :
            LET phone == lookup[1].value.full_information[e].phone
            IN  \A i, j \in 1..Len(phone) :
                    i < j => (StrLess(phone[i], phone[j]) /\ phone[i] # phone[j])

\* An AlertInfo with an entry of two numbers, "+12" before "+2".
C10_Witness ==
    /\ Returned
    /\ lookup[1].ok
    /\ \E e \in 1..Len(lookup[1].value.full_information) :
          lookup[1].value.full_information[e].phone = <<<<Plus, 49, 50>>, <<Plus, 50>>>>

(***************************************************************************)
(* C11, C12, C16: the functions on their own (SpecCalls)                   *)
(***************************************************************************)
Called(function) == pc = "returned" /\ request.handler = function

\* The normalized `to` of the contacts whose method is "voice" or "sms".
QualifyingNumbers(userContacts) ==
    {format_phone_number(userContacts[i].to) :
        i \in {k \in 1..Len(userContacts) :
                  userContacts[k].contactMethod \in {"voice", "sms"}}}

\* C11: the numbers resolved for a user are exactly the normalized `to` of
\* the contacts whose method is "voice" or "sms", each number once: a
\* contact of another method adds nothing, and two qualifying contacts of
\* the same normalized number add one entry.
C11_NumbersAreQualifyingSet ==
    Called("get_phone_number") =>
        /\ Range(reply[1]) = QualifyingNumbers(request.userContacts)
        /\ Len(reply[1]) = Cardinality(QualifyingNumbers(request.userContacts))

\* Two contacts and one number: "1-2" by voice and "12" by sms, or one of
\* the two contacts by email.
C11_Witness ==
    /\ Called("get_phone_number")
    /\ Len(reply[1]) = 1
    /\ Len(request.userContacts) = 2
    /\ \/ /\ \A i \in 1..2 : request.userContacts[i].contactMethod # "email"
          /\ request.userContacts[1].to # request.userContacts[2].to
       \/ \E i \in 1..2 : request.userContacts[i].contactMethod = "email"

\* C12, as stated: format_phone_number is idempotent, and its result
\* begins with "+" and has no "-".
C12_Idempotent ==
    Called("format_phone_number") =>
        /\ format_phone_number(reply[1]) = reply[1]
        /\ Head(reply[1]) = Plus
        /\ \A i \in 1..Len(reply[1]) : reply[1][i] # Dash

\* C12, amended: the result of format_phone_number is "+" followed by the
\* input without its "-" (every other character is kept, in order), so it
\* begins with "+" and has no "-"; applied to its own result it puts one
\* more "+" in front, so it is not idempotent.
C12_PlusInFrontEveryTime ==
    Called("format_phone_number") =>
        /\ reply[1] = <<Plus>> \o SelectSeq(request.number, LAMBDA c : c # Dash)
        /\ Head(reply[1]) = Plus
        /\ \A i \in 1..Len(reply[1]) : reply[1][i] # Dash
        /\ format_phone_number(reply[1]) = <<Plus>> \o reply[1]

\* "+1-" gives "++1".
C12_Witness ==
    /\ Called("format_phone_number")
    /\ request.number = <<Plus, 49, Dash>>
    /\ reply = << <<Plus, Plus, 49>> >>

\* C16: send_json_request gives exactly one result for every outcome of the
\* request: HttpRequest when the request fails on the network; for a 4xx or
\* 5xx response, HttpErrorResponse with the status, the URL and the
\* (trimmed) body text when the body can be read, and
\* HttpErrorResponseUndecodableText otherwise; for a 2xx response the
\* deserialized value, or ParseJson when the body is no JSON of the type.
C16_OneResultPerOutcome ==
    Called("send_json_request") =>
        LET raw == request.raw
            result == reply[1]
        IN  /\ ~raw.net => result = Err([kind |-> "HttpRequest"])
            /\ raw.net /\ raw.status \in 400..599 /\ raw.readable =>
                   result = Err([kind |-> "HttpErrorResponse", status |-> raw.status,
                                 url |-> request.url, text |-> Trim(raw.text)])
            /\ raw.net /\ raw.status \in 400..599 /\ ~raw.readable =>
                   result = Err([kind |-> "HttpErrorResponseUndecodableText",
                                 status |-> raw.status, url |-> request.url])
            /\ raw.net /\ raw.status \in 200..299 =>
                   IF raw.readable /\ raw.json.type = request.T
                   THEN result = Ok(raw.json.value)
                   ELSE result = Err([kind |-> "ParseJson"])

\* A 404 whose body cannot be read.
C16_Witness ==
    /\ Called("send_json_request")
    /\ request.raw.net
    /\ request.raw.status = 404
    /\ ~request.raw.readable
    /\ ~reply[1].ok
    /\ reply[1].error.kind = "HttpErrorResponseUndecodableText"

(***************************************************************************)
(* C13: what the logs show (SpecRoster)                                    *)
(***************************************************************************)
\* The credentials of the providers, as the Config holds them.
Credentials(c) ==
    {c.twilio_config.credentials, c.opsgenie_config.credentials}
    \cup {c.slack_config[i].token : i \in 1..Len(c.slack_config)}

\* The header values and credential fields a log line shows.
ShownIn(line) ==
    IF line.kind = "HeaderMap"
    THEN {line.value.authorization}
    ELSE Credentials(line.value)

\* C13: no log line written while a request is handled shows the value of
\* a provider credential.
C13_NoCredentialInLogs ==
    \A i \in 1..Len(log) : ShownIn(log[i]) \cap Credentials(config) = {}

(***************************************************************************)
(* C14, C15: the startup (SpecStartup)                                     *)
(***************************************************************************)
Started == pc # "main"

\* run has returned a configuration error that names Slack.
SlackError ==
    /\ pc = "exit_failure"
    /\ reply[1].error.kind = "ParseConfig"
    /\ IF reply[1].error.source.kind = "ConstructBaseUrl"
       THEN reply[1].error.source.service = "slack"
       ELSE reply[1].error.source.envname \in {"WYGC_SLACK_TOKEN", "WYGC_SLACK_BASEURL"}

\* C14: when the Slack base URL is not set, the configuration never fails
\* because of Slack, whether the Slack token is set or not, and a served
\* Config has no Slack part; when the base URL is set and the token is
\* not, startup fails, and a failure that names Slack is the URL that does
\* not parse or the missing token.
C14_SlackTwoStepProbe ==
    /\ Started /\ env.WYGC_SLACK_BASEURL = <<>> =>
           /\ ~SlackError
           /\ pc # "exit_failure" => config.slack_config = <<>>
    /\ Started /\ env.WYGC_SLACK_BASEURL # <<>> /\ env.WYGC_SLACK_TOKEN = <<>> =>
           /\ pc = "exit_failure"
           /\ SlackError =>
                  \/ reply[1].error.source.kind = "ConstructBaseUrl"
                  \/ reply[1].error.source =
                         [kind |-> "MissingRequiredValue", envname |-> "WYGC_SLACK_TOKEN"]

\* The URL is set, the token is not: MissingRequiredValue.
C14_Witness ==
    /\ pc = "exit_failure"
    /\ env.WYGC_SLACK_BASEURL = <<"https://hooks.slack.com/services/">>
    /\ env.WYGC_SLACK_TOKEN = <<>>
    /\ reply[1].error = [kind |-> "ParseConfig",
                         source |-> [kind |-> "MissingRequiredValue",
                                     envname |-> "WYGC_SLACK_TOKEN"]]

\* The URL is not set, the token is: the service runs without Slack.
C14_WitnessAbsent ==
    /\ pc = "serving"
    /\ env.WYGC_SLACK_BASEURL = <<>>
    /\ env.WYGC_SLACK_TOKEN # <<>>
    /\ config.slack_config = <<>>

ValidToken(value) ==
    value # <<>> /\ value[1] # NonUnicode /\ HeaderValueFromStr(value[1]).ok

ValidBaseUrl(value) ==
    value = <<>> \/ (value[1] # NonUnicode /\ UrlParse(value[1]).ok)

ValidString(value) == value # <<>> /\ value[1] # NonUnicode

\* The mandatory configuration of the two providers is in the environment.
MandatoryValid(e) ==
    /\ ValidBaseUrl(e.WYGC_OPSGENIE_BASEURL)
    /\ ValidToken(e.WYGC_OPSGENIE_TOKEN)
    /\ ValidBaseUrl(e.WYGC_TWILIO_BASEURL)
    /\ ValidToken(e.WYGC_TWILIO_TOKEN)
    /\ ValidString(e.WYGC_TWILIO_WORKFLOW)
    /\ ValidString(e.WYGC_TWILIO_OUTNUMBER)

\* The Config holds the values of the environment.
FullyInitialized ==
    /\ config # <<>>
    /\ config.opsgenie_config.credentials = env.WYGC_OPSGENIE_TOKEN[1]
    /\ config.twilio_config.credentials = env.WYGC_TWILIO_TOKEN[1]
    /\ config.twilio_config.workflow_id = env.WYGC_TWILIO_WORKFLOW[1]
    /\ config.twilio_config.outgoing_number = env.WYGC_TWILIO_OUTNUMBER[1]
    /\ Ok(config.opsgenie_config.base_url) =
           UrlParse(unwrap_or(env.WYGC_OPSGENIE_BASEURL, "https://api.opsgenie.com/v2/"))
    /\ Ok(config.twilio_config.base_url) =
           UrlParse(unwrap_or(env.WYGC_TWILIO_BASEURL, "https://studio.twilio.com/v2/Flows/"))

\* C15: the service serves, and a request is accepted, only when the
\* mandatory configuration of both providers is valid and is what the
\* Config holds; with a mandatory value missing or invalid run returns an
\* error and nothing is served.
C15_ServesOnlyFullyConfigured ==
    /\ pc \in {"serving", "request"} => MandatoryValid(env) /\ FullyInitialized
    /\ Started /\ ~MandatoryValid(env) =>
           /\ pc = "exit_failure"
           /\ ~reply[1].ok
           /\ config = <<>>
           /\ request = <<>>

\* The workflow is the only mandatory value missing: startup fails on it.
C15_Witness ==
    /\ pc = "exit_failure"
    /\ env.WYGC_TWILIO_WORKFLOW = <<>>
    /\ reply[1].error = [kind |-> "ParseConfig",
                         source |-> [kind |-> "MissingRequiredValue",
                                     envname |-> "WYGC_TWILIO_WORKFLOW"]]

(***************************************************************************)
(* C17, C19: an alert request from its entry to its reply (Spec)           *)
(***************************************************************************)
IsAlert == request.handler = "alert_on_call"

\* The dial requests issued so far.
Posts == SelectSeq(http_log, LAMBDA r : r.method = "POST")

\* The numbers of the roster entries, entry after entry.
RECURSIVE PhonesOf(_)
PhonesOf(roster) ==
    IF roster = <<>> THEN <<>> ELSE roster[1].phone \o PhonesOf(Tail(roster))

\* No dial request before the roster is resolved; no dial request follows
\* a request to the roster provider.
DialOnlyAfterRoster ==
    /\ Posts # <<>> => lookup # <<>> /\ lookup[1].ok
    /\ \A i, j \in 1..Len(http_log) :
          (i < j /\ http_log[i].method = "POST") => http_log[j].method = "POST"

\* A failed resolution is the reply, and nothing is dialed.
RosterErrorIsReply ==
    (lookup # <<>> /\ ~lookup[1].ok) =>
        /\ reply = <<Err([kind |-> "OpsGenie", source |-> lookup[1].error])>>
        /\ Posts = <<>>

\* One dial request per number of the roster, in the order of the roster.
DialedAllOfRoster ==
    [i \in 1..Len(Posts) |-> Posts[i].form.To] = PhonesOf(lookup[1].value.full_information)

\* C17, as stated: an alert dials only after the roster is resolved, returns
\* the roster error and dials nothing when the resolution fails, and dials
\* exactly the numbers of all roster entries when it succeeds.
C17_LookupThenDialAll ==
    IsAlert =>
        /\ DialOnlyAfterRoster
        /\ RosterErrorIsReply
        /\ (lookup # <<>> /\ lookup[1].ok) => DialedAllOfRoster

\* C17, amended: as stated, except that after a successful resolution the
\* numbers are dialed only when the call-trigger URL can be built; when it
\* cannot, the alert returns the BuildUrl error and dials nothing.
C17_LookupThenDialAllIfUrlBuilds ==
    IsAlert =>
        /\ DialOnlyAfterRoster
        /\ RosterErrorIsReply
        /\ (lookup # <<>> /\ lookup[1].ok) =>
               IF config.twilio_config.base_url.cannot_be_a_base
               THEN /\ Posts = <<>>
                    /\ ~reply[1].ok
                    /\ reply[1].error.kind = "Twilio"
                    /\ reply[1].error.source.kind = "BuildUrl"
               ELSE DialedAllOfRoster

\* bob and alice are on call, with three numbers between them: three dial
\* requests.
C17_Witness ==
    /\ IsAlert
    /\ Dialed
    /\ Len(lookup[1].value.full_information) = 2
    /\ Len(Posts) = 3
    /\ Len(Detailed) = 3

\* C19: an alert that goes on to dial has at least one number (the roster
\* is resolved only when its first entry has one), so an AlertResult whose
\* overall result is Failure has at least one number that was dialed.
C19_DispatchNeverEmpty ==
    IsAlert =>
        /\ (lookup # <<>> /\ lookup[1].ok) =>
               /\ lookup[1].value.full_information[1].phone # <<>>
               /\ numbers # <<>>
        /\ pc = "dial_wait" => numbers # <<>> /\ Len(Posts) = Len(numbers)
        /\ (Dialed /\ Overall = "Failure") =>
               /\ Detailed # <<>>
               /\ Posts # <<>>

\* An alert answered Failure, with its one number dialed.
C19_Witness ==
    /\ IsAlert
    /\ Dialed
    /\ Overall = "Failure"
    /\ Len(Detailed) = 1
    /\ Len(Posts) = 1

(***************************************************************************)
(* C18: the contact lookups of get_oncall_number (SpecRoster)              *)
(***************************************************************************)
\* The contact lookups issued so far, in order.
Lookups == SelectSeq(http_log, LAMBDA r : r.url.path[Len(r.url.path) - 1] = "users")

\* The lookups issued and not answered yet.
InFlight == Len(Lookups) - Len(contact_log)

\* C18: the contact lookups are issued one at a time, in the order of the
\* provider's list: at most one is in flight, the k-th is for the k-th
\* recipient and is issued only after the lookups before it have
\* succeeded, and no lookup follows one that failed.
C18_SequentialLookups ==
    /\ InFlight \in {0, 1}
    /\ InFlight = 1 <=> pc = "contact_wait"
    /\ \A k \in 1..Len(Lookups) :
          /\ Lookups[k].url.path[Len(Lookups[k].url.path)] = Recipients[k]
          /\ \A i \in 1..(k - 1) : contact_log[i].result.ok
    /\ \A k \in 1..Len(contact_log) :
          ~contact_log[k].result.ok => Len(Lookups) = k /\ pc = "done"

\* Two recipients, the lookup of the first fails: the second is never
\* looked up.
C18_Witness ==
    /\ pc = "done"
    /\ persons_on_call[1].ok
    /\ Len(Recipients) = 2
    /\ Len(contact_log) = 1
    /\ ~contact_log[1].result.ok
    /\ Len(Lookups) = 1

====
